---- MODULE Spec2Model ----
(***************************************************************************)
(* Model of push.go: the periodic push loop started by initPush and the    *)
(* label-injection transform addExtraLabels.                               *)
(*                                                                         *)
(* Byte strings are sequences of one-character strings.  Indices returned  *)
(* by IndexByte / LastIndexByte are 0-based as in Go, -1 when absent.      *)
(***************************************************************************)
EXTENDS Integers, Sequences, FiniteSets, TLC

VARIABLES
    now,          \* wall clock, in timer units
    process,      \* "running" | "crashed" (unrecovered panic in a goroutine)
    callState,    \* per call: "none" | "fault" | "returned"
    cfg,          \* per call: the arguments of initPush
    nUnits,       \* per call: goroutines started by the call's `go func()`
    pc,           \* per unit: "none" | "start" | "wait" | "post" | "panicked"
    started,      \* per unit: time at which the ticker was created
    nextFire,     \* per unit: time of the ticker's next fire (0: no ticker)
    fired,        \* per unit: ticks fired by the ticker
    tickCh,       \* per unit: ticks buffered in ticker.C (capacity 1)
    dropped,      \* per unit: ticks the ticker dropped on a full channel
    recv,         \* per unit: ticks received by `range ticker.C`
    bb,           \* per unit: the unread bytes of bytes.Buffer bb
    tmpBuf,       \* per unit: tmpBuf
    snap,         \* per unit: what writeMetrics wrote in the current tick
    body,         \* per unit: the body handed to http.Post in the current tick
    resp,         \* per unit: outcome of the last http.Post
    nSnap,        \* per unit: calls of writeMetrics
    nInject,      \* per unit: calls of addExtraLabels
    nPost,        \* per unit: calls of http.Post
    logged,       \* per unit: the log.Printf line of the current tick
    closed,       \* per unit: resp.Body.Close was called in the current tick
    ipc,          \* transform harness: "in" | "once" | "twice"
    isrc,         \* transform harness: the input block
    ilabels,      \* transform harness: fragment of the first pass
    ilabels2,     \* transform harness: fragment of the second pass
    ires,         \* transform harness: result of the first pass
    ires2         \* transform harness: result of the second pass

schedVars == <<now, process, callState, cfg, nUnits, pc, started, nextFire, fired,
               tickCh, dropped, recv, bb, tmpBuf, snap, body, resp, nSnap,
               nInject, nPost, logged, closed>>
injVars == <<ipc, isrc, ilabels, ilabels2, ires, ires2>>
vars == <<schedVars, injVars>>

----------------------------------------------------------------------------
(* Bounds *)

MaxTime == 3      \* the clock stops after this many timer units
MaxLen == 5       \* longest enumerated input block of the transform harness

----------------------------------------------------------------------------
(* Bytes *)

LBRACE == "{"
RBRACE == "}"
SPACE == " "
NEWLINE == "\n"
COMMA == ","
QUOTE == "\""
EQUALS == "="

\* bytes.IndexByte: 0-based index of the first c in s, -1 if none
RECURSIVE IndexFrom(_, _, _)
IndexFrom(s, c, i) ==
    IF i > Len(s) THEN -1
    ELSE IF s[i] = c THEN i - 1
    ELSE IndexFrom(s, c, i + 1)

IndexByte(s, c) == IndexFrom(s, c, 1)

\* bytes.LastIndexByte: 0-based index of the last c in s, -1 if none
RECURSIVE LastIndexFrom(_, _, _)
LastIndexFrom(s, c, i) ==
    IF i < 1 THEN -1
    ELSE IF s[i] = c THEN i - 1
    ELSE LastIndexFrom(s, c, i - 1)

LastIndexByte(s, c) == LastIndexFrom(s, c, Len(s))

\* Go slices s[:n] and s[n:]
SliceTo(s, n) == SubSeq(s, 1, n)
SliceFrom(s, n) == SubSeq(s, n + 1, Len(s))

----------------------------------------------------------------------------
(* addExtraLabels(dst, src, extraLabels)                                   *)
(* The result is [panic |-> BOOLEAN, dst |-> bytes]; on panic dst is what  *)
(* had been appended when the panic was raised.                            *)

\* AppendLine without the "," after the fragment
AppendLineNoComma(dst, line, extraLabels) ==
    LET n == IndexByte(line, LBRACE) IN
    IF n >= 0
    THEN [panic |-> FALSE,
          dst |-> dst \o SliceTo(line, n + 1) \o extraLabels
                      \o SliceFrom(line, n + 1) \o <<NEWLINE>>]
    ELSE LET m == LastIndexByte(line, SPACE) IN
         IF m < 0
         THEN [panic |-> TRUE, dst |-> dst]
         ELSE [panic |-> FALSE,
               dst |-> dst \o SliceTo(line, m) \o <<LBRACE>> \o extraLabels
                           \o <<RBRACE>> \o SliceFrom(line, m) \o <<NEWLINE>>]

\* AppendLine cutting a label-less line at its first space
AppendLineFirstSpace(dst, line, extraLabels) ==
    LET n == IndexByte(line, LBRACE) IN
    IF n >= 0
    THEN [panic |-> FALSE,
          dst |-> dst \o SliceTo(line, n + 1) \o extraLabels \o <<COMMA>>
                      \o SliceFrom(line, n + 1) \o <<NEWLINE>>]
    ELSE LET m == IndexByte(line, SPACE) IN
         IF m < 0
         THEN [panic |-> TRUE, dst |-> dst]
         ELSE [panic |-> FALSE,
               dst |-> dst \o SliceTo(line, m) \o <<LBRACE>> \o extraLabels
                           \o <<RBRACE>> \o SliceFrom(line, m) \o <<NEWLINE>>]

\* AppendLine copying the line's own terminator instead of adding one
AppendLineNoNewline(dst, line, extraLabels) ==
    LET n == IndexByte(line, LBRACE) IN
    IF n >= 0
    THEN [panic |-> FALSE,
          dst |-> dst \o SliceTo(line, n + 1) \o extraLabels \o <<COMMA>>
                      \o SliceFrom(line, n + 1)]
    ELSE LET m == LastIndexByte(line, SPACE) IN
         IF m < 0
         THEN [panic |-> TRUE, dst |-> dst]
         ELSE [panic |-> FALSE,
               dst |-> dst \o SliceTo(line, m) \o <<LBRACE>> \o extraLabels
                           \o <<RBRACE>> \o SliceFrom(line, m)]

\* AppendLine overwriting the labels a line already has
AppendLineReplace(dst, line, extraLabels) ==
    LET n == IndexByte(line, LBRACE) IN
    IF n >= 0
    THEN LET r == IndexByte(line, RBRACE) IN
         [panic |-> FALSE,
          dst |-> dst \o SliceTo(line, n + 1) \o extraLabels
                      \o SliceFrom(line, IF r > n THEN r ELSE n + 1)
                      \o <<NEWLINE>>]
    ELSE LET m == LastIndexByte(line, SPACE) IN
         IF m < 0
         THEN [panic |-> TRUE, dst |-> dst]
         ELSE [panic |-> FALSE,
               dst |-> dst \o SliceTo(line, m) \o <<LBRACE>> \o extraLabels
                           \o <<RBRACE>> \o SliceFrom(line, m) \o <<NEWLINE>>]

\* AppendLine passing over an empty line
AppendLineSkipEmpty(dst, line, extraLabels) ==
    LET n == IndexByte(line, LBRACE) IN
    IF Len(line) = 0
    THEN [panic |-> FALSE, dst |-> dst \o <<NEWLINE>>]
    ELSE IF n >= 0
    THEN [panic |-> FALSE,
          dst |-> dst \o SliceTo(line, n + 1) \o extraLabels \o <<COMMA>>
                      \o SliceFrom(line, n + 1) \o <<NEWLINE>>]
    ELSE LET m == LastIndexByte(line, SPACE) IN
         IF m < 0
         THEN [panic |-> TRUE, dst |-> dst]
         ELSE [panic |-> FALSE,
               dst |-> dst \o SliceTo(line, m) \o <<LBRACE>> \o extraLabels
                           \o <<RBRACE>> \o SliceFrom(line, m) \o <<NEWLINE>>]

\* AppendLine dropping the separator of a label-less line (line[n+1:])
AppendLineDropSpace(dst, line, extraLabels) ==
    LET n == IndexByte(line, LBRACE) IN
    IF n >= 0
    THEN [panic |-> FALSE,
          dst |-> dst \o SliceTo(line, n + 1) \o extraLabels \o <<COMMA>>
                      \o SliceFrom(line, n + 1) \o <<NEWLINE>>]
    ELSE LET m == LastIndexByte(line, SPACE) IN
         IF m < 0
         THEN [panic |-> TRUE, dst |-> dst]
         ELSE [panic |-> FALSE,
               dst |-> dst \o SliceTo(line, m) \o <<LBRACE>> \o extraLabels
                           \o <<RBRACE>> \o SliceFrom(line, m + 1)
                           \o <<NEWLINE>>]

\* lines 121-138: the body of one loop iteration, after the line was cut off
AppendLine(dst, line, extraLabels) ==
    LET n == IndexByte(line, LBRACE) IN
    IF n >= 0
    THEN [panic |-> FALSE,
          dst |-> dst \o SliceTo(line, n + 1) \o extraLabels \o <<COMMA>>
                      \o SliceFrom(line, n + 1) \o <<NEWLINE>>]
    ELSE LET m == LastIndexByte(line, SPACE) IN
         IF m < 0
         THEN [panic |-> TRUE, dst |-> dst]
         ELSE [panic |-> FALSE,
               dst |-> dst \o SliceTo(line, m) \o <<LBRACE>> \o extraLabels
                           \o <<RBRACE>> \o SliceFrom(line, m) \o <<NEWLINE>>]

RECURSIVE addExtraLabels(_, _, _)
addExtraLabels(dst, src, extraLabels) ==
    IF Len(src) = 0 THEN [panic |-> FALSE, dst |-> dst]
    ELSE LET n == IndexByte(src, NEWLINE)
             line == IF n >= 0 THEN SliceTo(src, n) ELSE src
             rest == IF n >= 0 THEN SliceFrom(src, n + 1) ELSE <<>>
             r == AppendLine(dst, line, extraLabels)
         IN IF r.panic THEN r
            ELSE addExtraLabels(r.dst, rest, extraLabels)

----------------------------------------------------------------------------
(* validateTags(s): TRUE when s is accepted (the Go function returns nil). *)
(* An empty fragment is accepted; otherwise s must be a comma-separated    *)
(* sequence of name="value" pairs (a value holds no raw newline).          *)

NotInName == {EQUALS, QUOTE, COMMA, LBRACE, RBRACE, SPACE, NEWLINE}

validateIdent(s) ==
    /\ Len(s) > 0
    /\ \A i \in 1..Len(s) : s[i] \notin NotInName

RECURSIVE validatePairs(_)
validatePairs(s) ==
    LET n == IndexByte(s, EQUALS) IN
    /\ n >= 0
    /\ validateIdent(SliceTo(s, n))
    /\ LET t == SliceFrom(s, n + 1) IN
       /\ Len(t) > 0
       /\ t[1] = QUOTE
       /\ LET v == SliceFrom(t, 1)
              q == IndexByte(v, QUOTE)
          IN /\ q >= 0
             /\ IndexByte(SliceTo(v, q), NEWLINE) < 0
             /\ LET u == SliceFrom(v, q + 1) IN
                \/ Len(u) = 0
                \/ /\ u[1] = COMMA
                   /\ validatePairs(SliceFrom(u, 1))

validateTags(s) == Len(s) = 0 \/ validatePairs(s)

----------------------------------------------------------------------------
(* Inputs of the push loop *)

Targets == {"t1", "t2"}             \* the schedule calls of a run
Urls == {"u1", "u2"}
Intervals == {-1, 0, 1, 2}
\* the writeMetrics closure each call passes
Producer == [t \in Targets |-> IF t = "t1" THEN "p1" ELSE "p2"]
Statuses == {204, 500}

\* outcomes of http.Post: (resp, err)
Pending == [err |-> FALSE, code |-> 0]          \* http.Post has not returned
TransportError == [err |-> TRUE, code |-> 0]    \* err != nil
Response(code) == [err |-> FALSE, code |-> code]
Outcomes == {TransportError} \cup {Response(c) : c \in Statuses}

LabelB == <<"b", "=", "\"", "2", "\"">>                 \* b="2"
LabelC == <<"c", "=", "\"", "3", "\"">>                 \* c="3"
LabelBad == <<"b", "=", "2">>                           \* b=2
LabelOpen == <<"b", "=", "\"", "2">>                     \* b="2
ExtraLabels == {<<>>, LabelB, LabelBad, LabelOpen}

Foo5 == <<"f", "o", "o", " ", "5", "\n">>               \* foo 5
FooBare == <<"f", "o", "o", "\n">>                      \* foo
BarA7 == <<"b", "a", "r", "{", "a", "=", "\"", "1", "\"", "}", " ", "7", "\n">>
Bar7 == <<"b", "a", "r", " ", "7", "\n">>               \* bar 7
BarBare == <<"b", "a", "r", "\n">>                      \* bar

\* what a target's writeMetrics callback may write into the buffer
writeMetrics(p) ==
    IF p = "p1" THEN {Foo5, FooBare}
    ELSE IF p = "p2" THEN {BarA7, Bar7 \o BarBare}
    ELSE {}

NoCfg == [url |-> "", interval |-> 0, extraLabels |-> <<>>, producer |-> ""]
NoLog == [kind |-> "none", url |-> "", code |-> 0]

\* bytes.Buffer
Reset(b) == <<>>
Write(b, p) == b \o p

----------------------------------------------------------------------------
(* The schedule call *)

InitSched ==
    /\ now = 0
    /\ process = "running"
    /\ callState = [t \in Targets |-> "none"]
    /\ cfg = [t \in Targets |-> NoCfg]
    /\ nUnits = [t \in Targets |-> 0]
    /\ pc = [t \in Targets |-> "none"]
    /\ started = [t \in Targets |-> 0]
    /\ nextFire = [t \in Targets |-> 0]
    /\ fired = [t \in Targets |-> 0]
    /\ tickCh = [t \in Targets |-> 0]
    /\ dropped = [t \in Targets |-> 0]
    /\ recv = [t \in Targets |-> 0]
    /\ bb = [t \in Targets |-> <<>>]
    /\ tmpBuf = [t \in Targets |-> <<>>]
    /\ snap = [t \in Targets |-> <<>>]
    /\ body = [t \in Targets |-> <<>>]
    /\ resp = [t \in Targets |-> Pending]
    /\ nSnap = [t \in Targets |-> 0]
    /\ nInject = [t \in Targets |-> 0]
    /\ nPost = [t \in Targets |-> 0]
    /\ logged = [t \in Targets |-> NoLog]
    /\ closed = [t \in Targets |-> FALSE]

InitInjOff ==
    /\ ipc = "off"
    /\ isrc = <<>>
    /\ ilabels = <<>>
    /\ ilabels2 = <<>>
    /\ ires = [panic |-> FALSE, dst |-> <<>>]
    /\ ires2 = [panic |-> FALSE, dst |-> <<>>]

Init == InitSched /\ InitInjOff

\* initPushOutcome accepting a zero interval
initPushOutcomeZero(interval, extraLabels) ==
    IF interval < 0 THEN "fault"
    ELSE IF ~validateTags(extraLabels) THEN "fault"
    ELSE "go"

\* initPushOutcome without the check of extraLabels
initPushOutcomeNoTags(interval, extraLabels) ==
    IF interval <= 0 THEN "fault"
    ELSE "go"

\* initPush, lines 77-84: the outcome of the synchronous part.
\* "fault": the call panics; "go": the goroutine is started and the call returns.
initPushOutcome(interval, extraLabels) ==
    IF interval <= 0 THEN "fault"
    ELSE IF ~validateTags(extraLabels) THEN "fault"
    ELSE "go"

initPush(t, pushURL, interval, extraLabels, producer) ==
    /\ process = "running"
    /\ callState[t] = "none"
    /\ cfg' = [cfg EXCEPT ![t] = [url |-> pushURL, interval |-> interval,
                                  extraLabels |-> extraLabels,
                                  producer |-> producer]]
    /\ IF initPushOutcome(interval, extraLabels) = "fault"
       THEN /\ callState' = [callState EXCEPT ![t] = "fault"]
            /\ UNCHANGED <<nUnits, pc>>
       ELSE /\ callState' = [callState EXCEPT ![t] = "returned"]
            /\ nUnits' = [nUnits EXCEPT ![t] = @ + 1]
            /\ pc' = [pc EXCEPT ![t] = "start"]
    /\ UNCHANGED <<now, process, started, nextFire, fired, tickCh, dropped, recv, bb,
                   tmpBuf, snap, body, resp, nSnap, nInject, nPost, logged,
                   closed, injVars>>

\* line 85: the goroutine creates its ticker
UnitStart(t) ==
    /\ process = "running"
    /\ pc[t] = "start"
    /\ pc' = [pc EXCEPT ![t] = "wait"]
    /\ started' = [started EXCEPT ![t] = now]
    /\ nextFire' = [nextFire EXCEPT ![t] = now + cfg[t].interval]
    /\ UNCHANGED <<now, process, callState, cfg, nUnits, fired, tickCh,
                   dropped, recv, bb, tmpBuf, snap, body, resp, nSnap,
                   nInject, nPost, logged, closed, injVars>>

\* Fires with one ticker shared by all units
FiresShared(t, time) ==
    pc[t] \in {"wait", "post"} /\ \E u \in Targets : nextFire[u] = time

\* time.Ticker: every `interval` it sends on ticker.C, a channel of capacity
\* 1, and drops the tick when the channel is full.
Fires(t, time) == pc[t] \in {"wait", "post"} /\ nextFire[t] = time

\* ChanFull for an unbuffered ticker.C: a tick is lost unless the unit is
\* waiting for it
ChanFullUnbuffered(t) == tickCh[t] = 1 \/ pc[t] # "wait"

\* the ticker's non-blocking send finds the one slot of ticker.C taken
ChanFull(t) == tickCh[t] = 1

AdvanceTime ==
    /\ process = "running"
    /\ now < MaxTime
    /\ now' = now + 1
    /\ nextFire' = [t \in Targets |->
                      IF Fires(t, now + 1) THEN nextFire[t] + cfg[t].interval
                      ELSE nextFire[t]]
    /\ fired' = [t \in Targets |->
                   IF Fires(t, now + 1) THEN fired[t] + 1 ELSE fired[t]]
    /\ tickCh' = [t \in Targets |->
                    IF Fires(t, now + 1) /\ ~ChanFull(t) THEN 1 ELSE tickCh[t]]
    /\ dropped' = [t \in Targets |->
                     IF Fires(t, now + 1) /\ ChanFull(t)
                     THEN dropped[t] + 1 ELSE dropped[t]]
    /\ UNCHANGED <<process, callState, cfg, nUnits, pc, started, recv, bb, tmpBuf,
                   snap, body, resp, nSnap, nInject, nPost, logged, closed,
                   injVars>>

\* Payload running the transform also for an empty fragment
PayloadAlways(oldBB, oldTmp, block, extraLabels) ==
    LET b1 == Write(Reset(oldBB), block) IN
    IF Len(extraLabels) >= 0
    THEN LET r == addExtraLabels(SliceTo(oldTmp, 0), b1, extraLabels) IN
         IF r.panic
         THEN [panic |-> TRUE, bb |-> b1, tmpBuf |-> oldTmp, injected |-> 1]
         ELSE [panic |-> FALSE, bb |-> Write(Reset(b1), r.dst),
               tmpBuf |-> r.dst, injected |-> 1]
    ELSE [panic |-> FALSE, bb |-> b1, tmpBuf |-> oldTmp, injected |-> 0]

\* Payload recovering from the panic and sending what was transformed
PayloadRecover(oldBB, oldTmp, block, extraLabels) ==
    LET b1 == Write(Reset(oldBB), block) IN
    IF Len(extraLabels) > 0
    THEN LET r == addExtraLabels(SliceTo(oldTmp, 0), b1, extraLabels) IN
         [panic |-> FALSE, bb |-> Write(Reset(b1), r.dst),
          tmpBuf |-> r.dst, injected |-> 1]
    ELSE [panic |-> FALSE, bb |-> b1, tmpBuf |-> oldTmp, injected |-> 0]

\* Payload appending to what tmpBuf held (tmpBuf for tmpBuf[:0])
PayloadNoTruncate(oldBB, oldTmp, block, extraLabels) ==
    LET b1 == Write(Reset(oldBB), block) IN
    IF Len(extraLabels) > 0
    THEN LET r == addExtraLabels(oldTmp, b1, extraLabels) IN
         IF r.panic
         THEN [panic |-> TRUE, bb |-> b1, tmpBuf |-> oldTmp, injected |-> 1]
         ELSE [panic |-> FALSE, bb |-> Write(Reset(b1), r.dst),
               tmpBuf |-> r.dst, injected |-> 1]
    ELSE [panic |-> FALSE, bb |-> b1, tmpBuf |-> oldTmp, injected |-> 0]

\* lines 89-95: the payload of a tick, from what writeMetrics wrote.
\* [panic, bb, tmpBuf, injected]
Payload(oldBB, oldTmp, block, extraLabels) ==
    LET b1 == Write(Reset(oldBB), block) IN
    IF Len(extraLabels) > 0
    THEN LET r == addExtraLabels(SliceTo(oldTmp, 0), b1, extraLabels) IN
         IF r.panic
         THEN [panic |-> TRUE, bb |-> b1, tmpBuf |-> oldTmp, injected |-> 1]
         ELSE [panic |-> FALSE, bb |-> Write(Reset(b1), r.dst),
               tmpBuf |-> r.dst, injected |-> 1]
    ELSE [panic |-> FALSE, bb |-> b1, tmpBuf |-> oldTmp, injected |-> 0]

\* CanReceive taking a tick while the previous POST is in flight
CanReceiveOverlap(t) ==
    /\ process = "running"
    /\ pc[t] \in {"wait", "post"}
    /\ tickCh[t] = 1

\* CanReceive not waiting for the ticker
CanReceiveNoTick(t) ==
    /\ process = "running"
    /\ pc[t] = "wait"

\* line 88: `for range ticker.C` receives when the unit is at the head of
\* the loop and the channel holds a tick
CanReceive(t) ==
    /\ process = "running"
    /\ pc[t] = "wait"
    /\ tickCh[t] = 1

\* lines 88-96: a tick is received, the snapshot is taken and transformed,
\* and http.Post is called; the unit then blocks in the POST.
ProcessTick(t, block) ==
    /\ CanReceive(t)
    /\ block \in writeMetrics(cfg[t].producer)
    /\ LET p == Payload(bb[t], tmpBuf[t], block, cfg[t].extraLabels) IN
       /\ tickCh' = [tickCh EXCEPT ![t] = 0]
       /\ recv' = [recv EXCEPT ![t] = @ + 1]
       /\ nSnap' = [nSnap EXCEPT ![t] = @ + 1]
       /\ snap' = [snap EXCEPT ![t] = block]
       /\ nInject' = [nInject EXCEPT ![t] = @ + p.injected]
       /\ bb' = [bb EXCEPT ![t] = p.bb]
       /\ tmpBuf' = [tmpBuf EXCEPT ![t] = p.tmpBuf]
       /\ logged' = [logged EXCEPT ![t] = NoLog]
       /\ closed' = [closed EXCEPT ![t] = FALSE]
       /\ resp' = [resp EXCEPT ![t] = Pending]
       /\ IF p.panic
          THEN /\ pc' = [pc EXCEPT ![t] = "panicked"]
               /\ process' = "crashed"
               /\ body' = [body EXCEPT ![t] = <<>>]
               /\ UNCHANGED nPost
          ELSE /\ pc' = [pc EXCEPT ![t] = "post"]
               /\ body' = [body EXCEPT ![t] = p.bb]
               /\ nPost' = [nPost EXCEPT ![t] = @ + 1]
               /\ UNCHANGED process
    /\ UNCHANGED <<now, callState, cfg, nUnits, started, nextFire, fired, dropped,
                   injVars>>

\* HandleResult leaving the loop on a transport error (return for continue)
HandleResultReturn(pushURL, outcome) ==
    IF outcome.err
    THEN [next |-> "exit", closed |-> FALSE,
          log |-> [kind |-> "cannot push", url |-> pushURL, code |-> 0]]
    ELSE IF outcome.code \div 100 # 2
    THEN [next |-> "wait", closed |-> TRUE,
          log |-> [kind |-> "unexpected status", url |-> pushURL,
                   code |-> outcome.code]]
    ELSE [next |-> "wait", closed |-> TRUE, log |-> NoLog]

\* HandleResult panicking on an unexpected status (panic for log.Printf)
HandleResultPanic(pushURL, outcome) ==
    IF outcome.err
    THEN [next |-> "wait", closed |-> FALSE,
          log |-> [kind |-> "cannot push", url |-> pushURL, code |-> 0]]
    ELSE IF outcome.code \div 100 # 2
    THEN [next |-> "panicked", closed |-> TRUE, log |-> NoLog]
    ELSE [next |-> "wait", closed |-> TRUE, log |-> NoLog]

\* HandleResult posting again after a transport error
HandleResultRetry(pushURL, outcome) ==
    IF outcome.err
    THEN [next |-> "post", closed |-> FALSE,
          log |-> [kind |-> "cannot push", url |-> pushURL, code |-> 0]]
    ELSE IF outcome.code \div 100 # 2
    THEN [next |-> "wait", closed |-> TRUE,
          log |-> [kind |-> "unexpected status", url |-> pushURL,
                   code |-> outcome.code]]
    ELSE [next |-> "wait", closed |-> TRUE, log |-> NoLog]

\* HandleResult closing the body after the status check only
HandleResultLeak(pushURL, outcome) ==
    IF outcome.err
    THEN [next |-> "wait", closed |-> FALSE,
          log |-> [kind |-> "cannot push", url |-> pushURL, code |-> 0]]
    ELSE IF outcome.code \div 100 # 2
    THEN [next |-> "wait", closed |-> FALSE,
          log |-> [kind |-> "unexpected status", url |-> pushURL,
                   code |-> outcome.code]]
    ELSE [next |-> "wait", closed |-> TRUE, log |-> NoLog]

\* lines 97-105: what the loop does with the result of http.Post.
\* next: where the unit goes ("wait": back to `range ticker.C`).
HandleResult(pushURL, outcome) ==
    IF outcome.err
    THEN [next |-> "wait", closed |-> FALSE,
          log |-> [kind |-> "cannot push", url |-> pushURL, code |-> 0]]
    ELSE IF outcome.code \div 100 # 2
    THEN [next |-> "wait", closed |-> TRUE,
          log |-> [kind |-> "unexpected status", url |-> pushURL,
                   code |-> outcome.code]]
    ELSE [next |-> "wait", closed |-> TRUE, log |-> NoLog]

\* how much of the body the HTTP client had read when http.Post returned:
\* all of it when a response came back, part of it when the transport failed
Consumed(b, outcome) == IF outcome.err THEN {Len(b) \div 2} ELSE {Len(b)}

\* lines 96-105: http.Post returns
PostReturn(t, outcome, k) ==
    /\ process = "running"
    /\ pc[t] = "post"
    /\ k \in Consumed(bb[t], outcome)
    /\ LET h == HandleResult(cfg[t].url, outcome) IN
       /\ resp' = [resp EXCEPT ![t] = outcome]
       /\ bb' = [bb EXCEPT ![t] = SliceFrom(@, k)]
       /\ logged' = [logged EXCEPT ![t] = h.log]
       /\ closed' = [closed EXCEPT ![t] = h.closed]
       /\ pc' = [pc EXCEPT ![t] = h.next]
       /\ nPost' = [nPost EXCEPT ![t] = IF h.next = "post" THEN @ + 1 ELSE @]
       /\ process' = IF h.next = "panicked" THEN "crashed" ELSE process
    /\ UNCHANGED <<now, callState, cfg, nUnits, started, nextFire, fired, tickCh,
                   dropped, recv, tmpBuf, snap, body, nSnap, nInject,
                   injVars>>

Call ==
    \E t \in Targets, u \in Urls, i \in Intervals, l \in ExtraLabels :
        initPush(t, u, i, l, Producer[t])

Start == \E t \in Targets : UnitStart(t)

Tick == \E t \in Targets : \E b \in writeMetrics(cfg[t].producer) :
            ProcessTick(t, b)

Return == \E t \in Targets, o \in Outcomes : \E k \in Consumed(bb[t], o) :
              PostReturn(t, o, k)

Next == Call \/ Start \/ AdvanceTime \/ Tick \/ Return

Spec == Init /\ [][Next]_vars

\* A run with a single schedule call.  The scheduler runs every goroutine
\* that can take a step and the clock goes on; http.Post is called on
\* http.DefaultClient, which sets no timeout, so nothing obliges a POST in
\* flight to return.
First == "t1"

CallFirst ==
    \E u \in Urls, i \in Intervals, l \in ExtraLabels :
        initPush(First, u, i, l, Producer[First])

StartFirst == UnitStart(First)

TickFirst == \E b \in writeMetrics(cfg[First].producer) : ProcessTick(First, b)

ReturnFirst == \E o \in Outcomes : \E k \in Consumed(bb[First], o) :
                   PostReturn(First, o, k)

NextFirst == CallFirst \/ StartFirst \/ AdvanceTime \/ TickFirst \/ ReturnFirst

SpecFair ==
    /\ Init
    /\ [][NextFirst]_vars
    /\ WF_vars(StartFirst)
    /\ WF_vars(TickFirst)
    /\ WF_vars(AdvanceTime)

----------------------------------------------------------------------------
(* The transform on its own: addExtraLabels applied once, then again to    *)
(* its own output.                                                         *)

Alphabet == {"m", LBRACE, RBRACE, SPACE, NEWLINE}
LabelD == <<"d", "=", "\"", "{", " ", "\"">>            \* d="{ "
Fragments == {LabelB, LabelC, LabelD}

FooA5 == <<"f", "o", "o", "{", "a", "=", "\"", "1", "\"", "}", " ", "5">>
Foo5NoNL == <<"f", "o", "o", " ", "5">>
TwoLines == Foo5 \o BarA7
TwoLinesOpen == Foo5 \o FooA5
Blocks ==
    UNION {[1..n -> Alphabet] : n \in 0..MaxLen}
        \cup {FooA5, Foo5NoNL, TwoLines, TwoLinesOpen}

NoResult == [panic |-> FALSE, dst |-> <<>>]

InitInject ==
    /\ InitSched
    /\ ipc = "in"
    /\ isrc \in Blocks
    /\ ilabels \in Fragments
    /\ ilabels2 = <<>>
    /\ ires = NoResult
    /\ ires2 = NoResult

InjectOnce ==
    /\ ipc = "in"
    /\ ipc' = "once"
    /\ ires' = addExtraLabels(<<>>, isrc, ilabels)
    /\ UNCHANGED <<isrc, ilabels, ilabels2, ires2, schedVars>>

InjectTwice(f) ==
    /\ ipc = "once"
    /\ ~ires.panic
    /\ ipc' = "twice"
    /\ ilabels2' = f
    /\ ires2' = addExtraLabels(<<>>, ires.dst, f)
    /\ UNCHANGED <<isrc, ilabels, ires, schedVars>>

InjectAgain == \E f \in Fragments : InjectTwice(f)

NextInject == InjectOnce \/ InjectAgain

SpecInject == InitInject /\ [][NextInject]_vars

----------------------------------------------------------------------------
(* Lines of a block, as the format defines them: cut at every "\n"; a      *)
(* last line without terminator is a line too.                             *)

HasByte(s, c) == \E i \in 1..Len(s) : s[i] = c
NLPos(s) == {i \in 1..Len(s) : s[i] = NEWLINE}
Unterminated(s) == Len(s) > 0 /\ s[Len(s)] # NEWLINE
NumLines(s) == Cardinality(NLPos(s)) + (IF Unterminated(s) THEN 1 ELSE 0)
KthNL(s, k) == CHOOSE i \in NLPos(s) : Cardinality({j \in NLPos(s) : j <= i}) = k
LineOf(s, k) ==
    LET a == IF k = 1 THEN 1 ELSE KthNL(s, k - 1) + 1
        b == IF k <= Cardinality(NLPos(s)) THEN KthNL(s, k) - 1 ELSE Len(s)
    IN SubSeq(s, a, b)

FirstPos(s, c) == CHOOSE i \in 1..Len(s) : s[i] = c /\ \A j \in 1..(i - 1) : s[j] # c
LastPos(s, c) == CHOOSE i \in 1..Len(s) : s[i] = c /\ \A j \in (i + 1)..Len(s) : s[j] # c

\* a line `metric_name{labels} value` or `metric_name value`
IsWord(s) == Len(s) > 0 /\ \A i \in 1..Len(s) : s[i] \notin NotInName
ValidLine(l) ==
    IF HasByte(l, LBRACE)
    THEN /\ HasByte(l, RBRACE)
         /\ FirstPos(l, LBRACE) < LastPos(l, RBRACE)
         /\ IsWord(SubSeq(l, 1, FirstPos(l, LBRACE) - 1))
         /\ LastPos(l, RBRACE) + 1 <= Len(l)
         /\ l[LastPos(l, RBRACE) + 1] = SPACE
         /\ IsWord(SubSeq(l, LastPos(l, RBRACE) + 2, Len(l)))
    ELSE /\ HasByte(l, SPACE)
         /\ IsWord(SubSeq(l, 1, LastPos(l, SPACE) - 1))
         /\ IsWord(SubSeq(l, LastPos(l, SPACE) + 1, Len(l)))
ValidBlock(s) == \A k \in 1..NumLines(s) : ValidLine(LineOf(s, k))

\* the harness has run the first pass; line k of its input was emitted
Ran == ipc \in {"once", "twice"}
Emitted(k) == k <= NumLines(ires.dst)

\* C5: every input line holding a "{" comes out as: the line up to and
\* including its first "{", the fragment, one ",", the rest of the line, "\n";
\* foo{a="1"} 5 with b="2" gives foo{b="2",a="1"} 5\n.
C5_LabelledLine ==
    Ran =>
      /\ \A k \in 1..NumLines(isrc) :
           LET l == LineOf(isrc, k) IN
           HasByte(l, LBRACE) =>
             /\ ~ires.panic => Emitted(k)
             /\ Emitted(k) =>
                  LineOf(ires.dst, k) =
                      SubSeq(l, 1, FirstPos(l, LBRACE)) \o ilabels \o <<COMMA>>
                          \o SubSeq(l, FirstPos(l, LBRACE) + 1, Len(l))
      /\ (isrc = FooA5 /\ ilabels = LabelB) =>
           /\ ~ires.panic
           /\ ires.dst = <<"f", "o", "o", "{", "b", "=", "\"", "2", "\"", ",",
                           "a", "=", "\"", "1", "\"", "}", " ", "5", "\n">>

C5_Witness ==
    /\ ipc = "once"
    /\ isrc = FooA5
    /\ ilabels = LabelB
    /\ ires.dst = <<"f", "o", "o", "{", "b", "=", "\"", "2", "\"", ",",
                    "a", "=", "\"", "1", "\"", "}", " ", "5", "\n">>

\* C6: every input line with no "{" but with a space comes out as: the text
\* before its last space, "{", the fragment, "}", the space and what follows
\* it, "\n"; foo 5 with b="2" gives foo{b="2"} 5\n.
C6_BareLine ==
    Ran =>
      /\ \A k \in 1..NumLines(isrc) :
           LET l == LineOf(isrc, k) IN
           (~HasByte(l, LBRACE) /\ HasByte(l, SPACE)) =>
             /\ ~ires.panic => Emitted(k)
             /\ Emitted(k) =>
                  LineOf(ires.dst, k) =
                      SubSeq(l, 1, LastPos(l, SPACE) - 1) \o <<LBRACE>>
                          \o ilabels \o <<RBRACE>>
                          \o SubSeq(l, LastPos(l, SPACE), Len(l))
      /\ (isrc = Foo5NoNL /\ ilabels = LabelB) =>
           /\ ~ires.panic
           /\ ires.dst = <<"f", "o", "o", "{", "b", "=", "\"", "2", "\"", "}",
                           " ", "5", "\n">>

C6_Witness ==
    /\ ipc = "once"
    /\ isrc = Foo5NoNL
    /\ ilabels = LabelB
    /\ ires.dst = <<"f", "o", "o", "{", "b", "=", "\"", "2", "\"", "}",
                    " ", "5", "\n">>

\* line `o` is line `l` with one run of bytes inserted
InsertedInto(l, o) ==
    /\ Len(o) >= Len(l)
    /\ \E i \in 0..Len(l) :
         /\ SubSeq(o, 1, i) = SubSeq(l, 1, i)
         /\ SubSeq(o, Len(o) - (Len(l) - i) + 1, Len(o)) = SubSeq(l, i + 1, Len(l))

\* C7: on a valid block with a valid fragment the output has as many lines as
\* the input, in the same order, and every output line ends with "\n", also
\* the one made from an unterminated last input line.
C7_LineCount ==
    (Ran /\ ValidBlock(isrc) /\ validateTags(ilabels)) =>
      /\ ~ires.panic
      /\ NumLines(ires.dst) = NumLines(isrc)
      /\ ~Unterminated(ires.dst)
      /\ Cardinality(NLPos(ires.dst)) = NumLines(isrc)
      /\ \A k \in 1..NumLines(isrc) :
           InsertedInto(LineOf(isrc, k), LineOf(ires.dst, k))

C7_Witness ==
    /\ ipc = "once"
    /\ ValidBlock(isrc)
    /\ NumLines(isrc) = 2
    /\ Unterminated(isrc)
    /\ NumLines(ires.dst) = 2
    /\ ~Unterminated(ires.dst)

\* C8: injecting f1 and then f2 into a valid block gives on every line a
\* label set that starts with f2, then "," and f1, then the line's own labels
\* if it had any; foo 5 with b="2" then c="3" gives foo{c="3",b="2"} 5\n.
C8_Nested ==
    (ipc = "twice" /\ ValidBlock(isrc)) =>
      /\ ~ires2.panic
      /\ NumLines(ires2.dst) = NumLines(isrc)
      /\ \A k \in 1..NumLines(isrc) :
           LET l == LineOf(isrc, k) IN
           LineOf(ires2.dst, k) =
               IF HasByte(l, LBRACE)
               THEN SubSeq(l, 1, FirstPos(l, LBRACE)) \o ilabels2 \o <<COMMA>>
                        \o ilabels \o <<COMMA>>
                        \o SubSeq(l, FirstPos(l, LBRACE) + 1, Len(l))
               ELSE SubSeq(l, 1, LastPos(l, SPACE) - 1) \o <<LBRACE>>
                        \o ilabels2 \o <<COMMA>> \o ilabels \o <<RBRACE>>
                        \o SubSeq(l, LastPos(l, SPACE), Len(l))
      /\ (isrc = Foo5NoNL /\ ilabels = LabelB /\ ilabels2 = LabelC) =>
           ires2.dst = <<"f", "o", "o", "{", "c", "=", "\"", "3", "\"", ",",
                         "b", "=", "\"", "2", "\"", "}", " ", "5", "\n">>

C8_Witness ==
    /\ ipc = "twice"
    /\ isrc = TwoLines
    /\ ilabels = LabelB
    /\ ilabels2 = LabelC
    /\ ~ires2.panic
    /\ NumLines(ires2.dst) = 2

----------------------------------------------------------------------------
(* The push loop *)

Called(t) == callState[t] # "none"
NoActivity(t) ==
    /\ nUnits[t] = 0
    /\ pc[t] = "none"
    /\ fired[t] = 0
    /\ recv[t] = 0
    /\ nSnap[t] = 0
    /\ nInject[t] = 0
    /\ nPost[t] = 0

\* C1: a schedule call with interval <= 0 raises the configuration fault in
\* the caller and no background unit, snapshot or POST ever exists for it.
C1_IntervalFault ==
    \A t \in Targets :
        (Called(t) /\ cfg[t].interval <= 0) =>
            callState[t] = "fault" /\ NoActivity(t)

C1_Witness ==
    \E t \in Targets, u \in Targets :
        /\ callState[t] = "fault"
        /\ cfg[t].interval <= 0
        /\ cfg[t].extraLabels = LabelB
        /\ NoActivity(t)
        /\ nPost[u] > 0
        /\ now = MaxTime

\* C2: a call whose non-empty fragment is not a sequence of name="value"
\* pairs raises the configuration fault and starts nothing; a call with an
\* empty or well-formed fragment and a positive interval raises no fault and
\* starts exactly one background unit.
C2_LabelsFault ==
    \A t \in Targets :
        /\ (Called(t) /\ cfg[t].extraLabels \in {LabelBad, LabelOpen}) =>
               callState[t] = "fault" /\ NoActivity(t)
        /\ (Called(t) /\ cfg[t].extraLabels \in {<<>>, LabelB}
                /\ cfg[t].interval > 0) =>
               callState[t] = "returned" /\ nUnits[t] = 1 /\ pc[t] # "none"

C2_Witness ==
    \E t \in Targets, u \in Targets :
        /\ callState[t] = "fault"
        /\ cfg[t].interval > 0
        /\ cfg[t].extraLabels = LabelBad
        /\ NoActivity(t)
        /\ callState[u] = "returned"
        /\ cfg[u].extraLabels = LabelB
        /\ nUnits[u] = 1
        /\ now = MaxTime

Failure(o) == o.err \/ (o # Pending /\ o.code \div 100 # 2)
\* the step in which the POST of t returns with a failure
FailsNow(t) ==
    pc[t] = "post" /\ resp[t] = Pending /\ resp'[t] # Pending
        /\ Failure(resp'[t])

\* C3: a failed delivery (transport error or non-2xx status) is only logged:
\* the unit is back at waiting for the timer, it has issued one POST per tick
\* and no more, and it takes the next tick as soon as the timer has sent it.
C3_SurvivesFailure ==
    \A t \in Targets :
        /\ nPost[t] <= recv[t]
        /\ Failure(resp[t]) =>
             /\ pc[t] = "wait"
             /\ logged[t].kind # "none"
             /\ nPost[t] = recv[t]
             /\ nSnap[t] = recv[t]
             /\ (process = "running" /\ tickCh[t] = 1) => CanReceive(t)

C3_Witness ==
    \E t \in Targets :
        /\ process = "running"
        /\ pc[t] = "wait"
        /\ resp[t] = TransportError
        /\ logged[t].kind = "cannot push"
        /\ nPost[t] >= 2
        /\ tickCh[t] = 1

OwnVars(t) ==
    <<pc[t], started[t], nextFire[t], fired[t], tickCh[t], dropped[t],
      recv[t], bb[t], tmpBuf[t], snap[t], body[t], resp[t], nSnap[t],
      nInject[t], nPost[t], logged[t], closed[t]>>

\* C4: a push failure reaches nobody but the log: the process keeps running,
\* no call changes its outcome, nothing of another unit and nothing of the
\* failing unit but its log line, response and position changes; and a
\* schedule call returns before any tick, snapshot or POST of its unit.
C4_HostUntouched ==
    [][\A t \in Targets :
         /\ FailsNow(t) =>
              /\ process' = process
              /\ callState' = callState
              /\ cfg' = cfg
              /\ nUnits' = nUnits
              /\ now' = now
              /\ \A u \in Targets \ {t} : OwnVars(u)' = OwnVars(u)
              /\ <<started[t], nextFire[t], fired[t], tickCh[t], dropped[t],
                   recv[t], tmpBuf[t], snap[t], body[t], nSnap[t],
                   nInject[t], nPost[t]>>'
                 = <<started[t], nextFire[t], fired[t], tickCh[t], dropped[t],
                     recv[t], tmpBuf[t], snap[t], body[t], nSnap[t],
                     nInject[t], nPost[t]>>
         /\ (callState[t] = "returned" => callState'[t] = "returned")
         /\ (callState[t] = "none" /\ callState'[t] = "returned") =>
              /\ now' = now
              /\ fired'[t] = 0
              /\ recv'[t] = 0
              /\ nSnap'[t] = 0
              /\ nPost'[t] = 0]_vars

C4_Witness ==
    \E t \in Targets :
        /\ callState[t] = "returned"
        /\ process = "running"
        /\ pc[t] = "wait"
        /\ resp[t] = Response(500)
        /\ logged[t] = [kind |-> "unexpected status", url |-> cfg[t].url,
                        code |-> 500]

\* C9: with an empty fragment the transform is never run and the body of
\* every POST is the snapshot of its tick, byte for byte, also a snapshot
\* that the transform would reject.
C9_EmptyFragment ==
    \A t \in Targets :
        (callState[t] = "returned" /\ cfg[t].extraLabels = <<>>) =>
            /\ nInject[t] = 0
            /\ nPost[t] = nSnap[t]
            /\ body[t] = snap[t]
            /\ pc[t] # "panicked"

C9_Witness ==
    \E t \in Targets :
        /\ cfg[t].extraLabels = <<>>
        /\ pc[t] = "post"
        /\ snap[t] = FooBare
        /\ body[t] = FooBare
        /\ addExtraLabels(<<>>, FooBare, LabelB).panic

\* C10: every successful call has its own unit; a unit's ticker fires every
\* `interval` of its own, its body is made from its own snapshot and its own
\* fragment, a unit with a tick pending can receive it whatever the other
\* units are doing, and a step of one unit changes nothing of another.
C10_Independent ==
    [][\A t \in Targets :
         /\ callState'[t] = "returned" => nUnits'[t] = 1 /\ pc'[t] # "none"
         /\ pc'[t] \in {"wait", "post"} =>
              /\ fired'[t] = (now' - started'[t]) \div cfg'[t].interval
              /\ fired'[t] = recv'[t] + tickCh'[t] + dropped'[t]
         /\ nSnap'[t] > 0 => snap'[t] \in writeMetrics(Producer[t])
         /\ (pc'[t] \in {"wait", "post"} /\ nPost'[t] > 0) =>
              body'[t] = IF cfg'[t].extraLabels = <<>> THEN snap'[t]
                         ELSE addExtraLabels(<<>>, snap'[t],
                                             cfg'[t].extraLabels).dst
         /\ (process = "running" /\ pc[t] = "wait" /\ tickCh[t] = 1) =>
              CanReceive(t)
         /\ pc'[t] # pc[t] =>
              \A u \in Targets \ {t} : OwnVars(u)' = OwnVars(u)]_vars

C10_Witness ==
    /\ cfg["t1"].url = cfg["t2"].url
    /\ cfg["t1"].interval = 2
    /\ cfg["t2"].interval = 1
    /\ pc["t1"] = "post"
    /\ nPost["t1"] = 1
    /\ resp["t2"] = Response(204)
    /\ nPost["t2"] >= 2
    /\ body["t1"] # body["t2"]

\* C11 as stated: no tick the timer fires is ever skipped, however slow
\* the POST of an earlier tick is.
C11_NoTickSkipped == \A t \in Targets : dropped[t] = 0

\* C11, amended: a tick fired while ticker.C is empty is kept, also when the
\* POST of an earlier tick is in flight, and is processed when the unit comes
\* back to the loop head; a tick fired while ticker.C still holds an
\* unreceived tick is dropped, and only such ticks are.
C11_TickKeptOrDropped ==
    [][\A t \in Targets :
         /\ tickCh'[t] \in {0, 1}
         /\ fired'[t] = recv'[t] + tickCh'[t] + dropped'[t]
         /\ (fired'[t] # fired[t] /\ tickCh[t] = 0) =>
              tickCh'[t] = 1 /\ dropped'[t] = dropped[t]
         /\ (fired'[t] # fired[t] /\ tickCh[t] = 1) =>
              tickCh'[t] = 1 /\ dropped'[t] = dropped[t] + 1
         /\ fired'[t] = fired[t] => dropped'[t] = dropped[t]
         /\ (tickCh[t] = 1 /\ tickCh'[t] = 0) =>
              /\ pc[t] = "wait"
              /\ recv'[t] = recv[t] + 1
              /\ nSnap'[t] = nSnap[t] + 1]_vars

C11_Witness ==
    \E t \in Targets :
        /\ pc[t] = "post"
        /\ nPost[t] = 1
        /\ fired[t] = 3
        /\ tickCh[t] = 1
        /\ dropped[t] = 1

\* a line with neither "{" nor a space
Unparsable(l) == ~HasByte(l, LBRACE) /\ ~HasByte(l, SPACE)

\* C12 as stated: the transform raises the malformed-line fault exactly when
\* some non-empty line has neither "{" nor a space; an empty line never
\* raises it.
C12_FaultOnNonEmptyOnly ==
    Ran =>
      (ires.panic <=>
         \E k \in 1..NumLines(isrc) :
             Len(LineOf(isrc, k)) > 0 /\ Unparsable(LineOf(isrc, k)))

\* C12, amended: the transform raises the malformed-line fault exactly when
\* some line of the block, an empty line included, has neither "{" nor a
\* space; it stops at the first such line with the lines before it appended.
C12_FaultOnAnyLine ==
    Ran =>
      /\ ires.panic <=>
           \E k \in 1..NumLines(isrc) : Unparsable(LineOf(isrc, k))
      /\ ires.panic =>
           /\ Unparsable(LineOf(isrc, NumLines(ires.dst) + 1))
           /\ \A k \in 1..NumLines(ires.dst) : ~Unparsable(LineOf(isrc, k))

C12_Witness ==
    /\ ipc = "once"
    /\ isrc = <<"m", " ", "m", "\n", "\n">>
    /\ ires.panic
    /\ NumLines(ires.dst) = 1

HasUnparsableLine(b) == \E k \in 1..NumLines(b) : Unparsable(LineOf(b, k))

\* C13: when the snapshot of a tick holds a line with neither "{" nor a
\* space and extra labels are configured, the tick issues no POST, not even
\* of the lines transformed before that line, nothing is logged, and the
\* panic ends the process, so the unit takes no further tick.
C13_MalformedIsFatal ==
    \A t \in Targets :
        /\ (nSnap[t] > 0 /\ Len(cfg[t].extraLabels) > 0
                /\ HasUnparsableLine(snap[t])) =>
               /\ pc[t] = "panicked"
               /\ process = "crashed"
               /\ nPost[t] = nSnap[t] - 1
               /\ body[t] = <<>>
               /\ resp[t] = Pending
               /\ logged[t] = NoLog
               /\ ~CanReceive(t)
        /\ pc[t] = "panicked" =>
               /\ Len(cfg[t].extraLabels) > 0
               /\ HasUnparsableLine(snap[t])
        /\ process = "crashed" => \E u \in Targets : pc[u] = "panicked"

C13_Witness ==
    /\ pc["t2"] = "panicked"
    /\ process = "crashed"
    /\ snap["t2"] = Bar7 \o BarBare
    /\ nSnap["t2"] = 2
    /\ nPost["t2"] = 1
    /\ now < MaxTime
    /\ addExtraLabels(<<>>, snap["t2"], cfg["t2"].extraLabels).dst # <<>>

\* C14: the HTTP call of a tick is bounded: a unit that has started a POST
\* eventually leaves it and is back at waiting for the timer, also when the
\* endpoint never answers.
C14_PostBounded ==
    \A t \in Targets :
        (pc[t] = "post") ~> (pc[t] # "post" \/ process = "crashed")

\* C15: the body of every POST is the snapshot written in the same tick,
\* passed through the transform when extra labels are configured, whatever
\* bb and tmpBuf held from the tick before (bytes the client left unread
\* after a failed delivery, the previous payload).
C15_FreshBody ==
    [][\A t \in Targets :
         nPost'[t] # nPost[t] =>
             /\ nSnap'[t] = nSnap[t] + 1
             /\ snap'[t] \in writeMetrics(cfg[t].producer)
             /\ body'[t] = IF Len(cfg[t].extraLabels) = 0 THEN snap'[t]
                           ELSE addExtraLabels(<<>>, snap'[t],
                                               cfg[t].extraLabels).dst
             /\ bb'[t] = body'[t]
             /\ Len(cfg[t].extraLabels) > 0 => tmpBuf'[t] = body'[t]]_vars

C15_Witness ==
    \E t \in Targets :
        /\ pc[t] = "post"
        /\ nPost[t] >= 2
        /\ cfg[t].extraLabels = LabelB
        /\ snap[t] = Foo5
        /\ body[t] = <<"f", "o", "o", "{", "b", "=", "\"", "2", "\"", "}",
                       " ", "5", "\n">>
        /\ tmpBuf[t] = body[t]

\* C16: a target's ticks are processed in the order the timer sent them:
\* they are received one at a time, the k-th snapshot is taken when the k-th
\* tick is received and the k-th POST is started in the same step, before
\* the next tick is received.
C16_TimerOrder ==
    [][\A t \in Targets :
         /\ recv'[t] \in {recv[t], recv[t] + 1}
         /\ recv'[t] <= fired'[t]
         /\ nSnap'[t] = recv'[t]
         /\ nPost'[t] \in {nPost[t], nPost[t] + 1}
         /\ nPost'[t] # nPost[t] => recv'[t] = recv[t] + 1
         /\ recv'[t] # recv[t] => nPost[t] = recv[t]
         /\ nPost'[t] \in {recv'[t], recv'[t] - 1}]_vars

C16_Witness ==
    \E t \in Targets :
        /\ recv[t] = 3
        /\ nSnap[t] = 3
        /\ nPost[t] = 3
        /\ pc[t] = "post"

\* C17: when the POST returns a response its body is closed in the same
\* step, before the unit is back at the loop head, for every status; a
\* non-2xx status is logged with its number; after a transport error
\* nothing is closed.
C17_BodyClosed ==
    \A t \in Targets :
        /\ pc[t] = "post" => resp[t] = Pending /\ ~closed[t]
        /\ resp[t] # Pending =>
             /\ pc[t] = "wait"
             /\ closed[t] <=> ~resp[t].err
             /\ resp[t].err => logged[t].kind = "cannot push"
             /\ (~resp[t].err /\ resp[t].code \notin 200..299) =>
                    logged[t] = [kind |-> "unexpected status",
                                 url |-> cfg[t].url, code |-> resp[t].code]
             /\ (~resp[t].err /\ resp[t].code \in 200..299) =>
                    logged[t] = NoLog

C17_Witness ==
    \E t \in Targets :
        /\ resp[t] = Response(500)
        /\ closed[t]
        /\ logged[t].code = 500
        /\ pc[t] = "wait"
        /\ tickCh[t] = 1

\* C18: a target has one unit, and the unit takes a tick only from the loop
\* head, after the POST of the previous tick has returned; no snapshot,
\* transform or POST starts while a POST of the target is in flight, however
\* many ticks fire meanwhile.
C18_Serialized ==
    [][\A t \in Targets :
         /\ nUnits'[t] <= 1
         /\ recv'[t] # recv[t] =>
              /\ pc[t] = "wait"
              /\ nPost[t] > 0 => resp[t] # Pending
         /\ pc[t] = "post" =>
              /\ nSnap'[t] = nSnap[t]
              /\ nInject'[t] = nInject[t]
              /\ nPost'[t] = nPost[t]
              /\ body'[t] = body[t]]_vars

C18_Witness ==
    \E t \in Targets :
        /\ pc[t] = "post"
        /\ resp[t] = Pending
        /\ fired[t] = 2
        /\ tickCh[t] = 1
        /\ dropped[t] = 0
        /\ nSnap[t] = 1
        /\ nPost[t] = 1

\* C20: nothing is snapshot or posted when the call returns; the first
\* snapshot and POST come after the ticker's first tick, one interval after
\* the ticker was made, and a unit never has more snapshots or POSTs than
\* ticks fired.
C20_TickFirst ==
    \A t \in Targets :
        /\ nPost[t] <= nSnap[t]
        /\ nSnap[t] <= recv[t]
        /\ recv[t] <= fired[t]
        /\ pc[t] \in {"none", "start"} =>
             fired[t] = 0 /\ nSnap[t] = 0 /\ nPost[t] = 0
        /\ nSnap[t] > 0 => now >= started[t] + cfg[t].interval
        /\ fired[t] > 0 => now >= started[t] + fired[t] * cfg[t].interval

C20_Witness ==
    \E t \in Targets :
        /\ cfg[t].interval = 2
        /\ now = started[t] + 2
        /\ pc[t] = "post"
        /\ nSnap[t] = 1
        /\ nPost[t] = 1

\* C19: the transform only inserts: taking the inserted bytes (the fragment
\* and "," after the first "{", or "{" fragment "}" before the last space)
\* out of an output line gives the input line back, byte for byte.
C19_OnlyInserts ==
    Ran =>
      \A k \in 1..NumLines(ires.dst) :
          LET l == LineOf(isrc, k)
              o == LineOf(ires.dst, k)
              ins == IF HasByte(l, LBRACE) THEN ilabels \o <<COMMA>>
                     ELSE <<LBRACE>> \o ilabels \o <<RBRACE>>
              at == IF HasByte(l, LBRACE) THEN FirstPos(l, LBRACE)
                    ELSE LastPos(l, SPACE) - 1
          IN /\ Len(o) = Len(l) + Len(ins)
             /\ SubSeq(o, at + 1, at + Len(ins)) = ins
             /\ SubSeq(o, 1, at) \o SubSeq(o, at + Len(ins) + 1, Len(o)) = l

C19_Witness ==
    /\ ipc = "once"
    /\ isrc = TwoLinesOpen
    /\ ilabels = LabelD
    /\ ~ires.panic
    /\ NumLines(ires.dst) = 2

====
